---------------------------- MODULE Spec2Model ----------------------------
(***************************************************************************)
(* A model of aws_strand_agent: the AgentManager wrapper around the        *)
(* Bedrock Agents control plane and runtime (agent_manager.py) and the     *)
(* command-line commands built on it (cli.py).                             *)
(*                                                                         *)
(* Python strings are modelled as sequences of one-character strings, so   *)
(* that startswith, "in", split and strip are computed character by        *)
(* character as CPython computes them.                                     *)
(*                                                                         *)
(* The module holds several specifications over one set of variables; the  *)
(* variables a specification does not use stay at their idle values.       *)
(*   SpecNormalize  the identifier normalisers of cli.py                   *)
(*   SpecWait       AgentManager.wait_for_status, the polling loop         *)
(*   SpecWaitFair   SpecWait with the program always taking its next step  *)
(*   SpecPrepare    prepare_agent followed by wait_for_status, as the      *)
(*                  prepare command and quickstart do                      *)
(*   SpecInvoke     AgentManager.invoke, reading the response stream       *)
(*   SpecList       AgentManager.list_agents and list_aliases, paginating  *)
(*   Spec           the commands create-agent, quickstart and invoke, run  *)
(*                  one after another against one service                  *)
(***************************************************************************)
EXTENDS Integers, Sequences, FiniteSets, TLC

VARIABLES
    normIn,     \* the value handed to the normaliser
    normKind,   \* "agent" (_extract_agent_id) or "alias" (_extract_alias_id)
    normPc,     \* "start", "once" (applied once), "twice" (applied to its own result)
    normOut,    \* the result of the first application
    normOut2,   \* the result of the second application
    \* ---- wait_for_status
    wPc,        \* "prepare", "enter", "test", "get", "sleep", and where it ended:
                \* "returned", "terminal", "timeout", "prepare-raised"
    wAgent,     \* agent_id
    wDesired,   \* desired
    wTimeout,   \* timeout_s
    wPoll,      \* poll_s
    now,        \* time.time()
    wStart,     \* start
    wTrace,     \* the agentStatus each get_agent call of this wait returned, in order
    wSleeps,    \* the number of time.sleep calls made
    wResult,    \* the status returned ("" while none)
    wErr,       \* the exception raised (NoError while none)
    wCmd,       \* the command that prepares and waits ("" for a bare wait)
    wPrepares,  \* the agentId of each agents.prepare_agent call issued, in order
    \* ---- invoke
    iPc,        \* "call", "stream", "done", "raised"
    iStream,    \* resp["completion"]: the events the service has to send
    iIdx,       \* the number of events the for loop has consumed
    iChunks,    \* chunks
    iResult,    \* the text returned
    iRemote,    \* the error the service raised (NoError while none)
    iPhase,     \* "call" or "stream": where the service raised it
    iErr,       \* the exception invoke raised to its caller
    \* ---- list_agents / list_aliases
    lPc,        \* "request" (about to send a request), "done" (returned)
    lKind,      \* "agents" (list_agents) or "aliases" (list_aliases)
    lPages,     \* the pages the service holds, in order
    lToken,     \* token
    lAcc,       \* agents / aliases: the items accumulated
    lRequests,  \* the nextToken of each request sent (NoToken: none sent)
    \* ---- the service, and the commands run against it
    svcAgents,  \* the agents of the account: agentId i is svcAgents[i]
    svcAliases, \* the aliases: agentAliasId i is svcAliases[i]
    run,        \* the number of the command being run
    cmd,        \* "create-agent", "quickstart" or "invoke"
    pc,         \* where the command is
    cfgName,    \* cfg.agent_name
    aliasName,  \* alias_name
    createIfMissing, \* create_alias_if_missing
    agentId,    \* agent_id (0 while none)
    aliasId,    \* alias_id (0 while none)
    caught,     \* the ClientError create_agent is handling
    raised,     \* the remote error last raised and not recovered from
    surfaced,   \* the exception the command ended with
    at,         \* the step at which the command failed
    created,    \* whether agents.create_agent succeeded in this command
    faults,     \* what went wrong in the service during this command
    prev        \* a summary of the command run before this one

normVars == <<normIn, normKind, normPc, normOut, normOut2>>
waitVars == <<wPc, wAgent, wDesired, wTimeout, wPoll, now, wStart, wTrace,
              wSleeps, wResult, wErr, wCmd, wPrepares>>

invVars == <<iPc, iStream, iIdx, iChunks, iResult, iRemote, iPhase, iErr>>

listVars == <<lPc, lKind, lPages, lToken, lAcc, lRequests>>

flowVars == <<svcAgents, svcAliases, run, cmd, pc, cfgName, aliasName,
              createIfMissing, agentId, aliasId, caught, raised, surfaced, at,
              created, faults, prev>>

vars == <<normVars, waitVars, invVars, listVars, flowVars>>

\* what each specification leaves alone
exceptNorm == <<waitVars, invVars, listVars, flowVars>>
exceptWait == <<normVars, invVars, listVars, flowVars>>
exceptInvoke == <<normVars, waitVars, listVars, flowVars>>
exceptList == <<normVars, waitVars, invVars, flowVars>>
exceptFlow == <<normVars, waitVars, invVars, listVars>>

\* an exception: its class, the remote error code it carries ("" if none)
\* and its message, a sequence of text parts
Exc(type, code, text) == [type |-> type, code |-> code, text |-> text]

\* no exception
NoError == Exc("None", "", <<>>)

IdleNorm ==
    /\ normIn = <<>>
    /\ normKind = "agent"
    /\ normPc = "idle"
    /\ normOut = <<>>
    /\ normOut2 = <<>>

IdleWait ==
    /\ wPc = "idle"
    /\ wAgent = ""
    /\ wDesired = ""
    /\ wTimeout = 0
    /\ wPoll = 0
    /\ now = 0
    /\ wStart = 0
    /\ wTrace = <<>>
    /\ wSleeps = 0
    /\ wResult = ""
    /\ wErr = NoError
    /\ wCmd = ""
    /\ wPrepares = <<>>

IdleInvoke ==
    /\ iPc = "idle"
    /\ iStream = <<>>
    /\ iIdx = 0
    /\ iChunks = <<>>
    /\ iResult = <<>>
    /\ iRemote = NoError
    /\ iPhase = ""
    /\ iErr = NoError

IdleList ==
    /\ lPc = "idle"
    /\ lKind = ""
    /\ lPages = <<>>
    /\ lToken = 0
    /\ lAcc = <<>>
    /\ lRequests = <<>>

\* no command run yet
NoRun == [cmd |-> "none", name |-> "", alias |-> "", ok |-> FALSE,
          agentId |-> 0, created |-> FALSE]

IdleFlow ==
    /\ svcAgents = <<>>
    /\ svcAliases = <<>>
    /\ run = 0
    /\ cmd = ""
    /\ pc = "idle"
    /\ cfgName = ""
    /\ aliasName = ""
    /\ createIfMissing = FALSE
    /\ agentId = 0
    /\ aliasId = 0
    /\ caught = NoError
    /\ raised = NoError
    /\ surfaced = NoError
    /\ at = ""
    /\ created = FALSE
    /\ faults = 0
    /\ prev = NoRun

IdleExceptNorm == IdleWait /\ IdleInvoke /\ IdleList /\ IdleFlow
IdleExceptWait == IdleNorm /\ IdleInvoke /\ IdleList /\ IdleFlow
IdleExceptInvoke == IdleNorm /\ IdleWait /\ IdleList /\ IdleFlow
IdleExceptList == IdleNorm /\ IdleWait /\ IdleInvoke /\ IdleFlow
IdleExceptFlow == IdleNorm /\ IdleWait /\ IdleInvoke /\ IdleList

(***************************************************************************)
(* Python str primitives.                                                  *)
(***************************************************************************)

\* str.startswith(p)
StartsWith(s, p) == Len(s) >= Len(p) /\ SubSeq(s, 1, Len(p)) = p

\* whether sub occurs in s at (1-based) position i
OccursAt(s, sub, i) ==
    /\ i >= 1
    /\ i + Len(sub) - 1 <= Len(s)
    /\ SubSeq(s, i, i + Len(sub) - 1) = sub

\* "sub in s"
Contains(s, sub) == \E i \in 1..(Len(s) + 1) : OccursAt(s, sub, i)

\* str.find(sub, from): the least position >= from where sub occurs, 0 if none
FindFrom(s, sub, from) ==
    IF \E i \in from..(Len(s) + 1) : OccursAt(s, sub, i)
    THEN CHOOSE i \in from..(Len(s) + 1) :
            /\ OccursAt(s, sub, i)
            /\ \A j \in from..(i - 1) : ~OccursAt(s, sub, j)
    ELSE 0

\* s.split(sep)[-1]: split scans left to right over non-overlapping occurrences
\* of sep; the last piece is what follows the last occurrence the scan finds.
RECURSIVE SplitLastFrom(_, _, _)
SplitLastFrom(s, sep, from) ==
    LET j == FindFrom(s, sep, from)
    IN  IF j = 0 THEN SubSeq(s, from, Len(s))
        ELSE SplitLastFrom(s, sep, j + Len(sep))

SplitLast(s, sep) == SplitLastFrom(s, sep, 1)

\* s.split(sep)[0]: what precedes the first occurrence of sep (all of s if none)
SplitFirst(s, sep) ==
    LET j == FindFrom(s, sep, 1)
    IN  IF j = 0 THEN s ELSE SubSeq(s, 1, j - 1)

\* s.split(sep, 1)[-1]: what follows the FIRST occurrence of sep
SplitAfterFirst(s, sep) ==
    LET j == FindFrom(s, sep, 1)
    IN  IF j = 0 THEN s ELSE SubSeq(s, j + Len(sep), Len(s))

(***************************************************************************)
(* cli.py: _extract_alias_id and _extract_agent_id.                        *)
(***************************************************************************)

ArnPrefix == <<"a","r","n",":","a","w","s",":","b","e","d","r","o","c","k",":">>
AliasMarker == <<"/","a","l","i","a","s","/">>
AgentMarker == <<"/","a","g","e","n","t","/">>
Slash == <<"/">>

\* the guard of _extract_alias_id; "value and ..." is false for the empty string
AliasGuard(value) ==
    /\ value # <<>>
    /\ StartsWith(value, ArnPrefix)
    /\ Contains(value, AliasMarker)

\* the guard of _extract_agent_id
AgentGuard(value) ==
    /\ value # <<>>
    /\ StartsWith(value, ArnPrefix)
    /\ Contains(value, AgentMarker)

\* a slip: split("/alias/", 1)[-1], which keeps everything after the first marker
ExtractAliasIdFirstMarker(value) ==
    IF AliasGuard(value) THEN SplitAfterFirst(value, AliasMarker) ELSE value

ExtractAliasId(value) ==
    IF AliasGuard(value) THEN SplitLast(value, AliasMarker) ELSE value

ExtractAgentId(value) ==
    IF AgentGuard(value)
    THEN SplitFirst(SplitLast(value, AgentMarker), Slash)
    ELSE value

\* normalizeIdentifier(value, kind) of the specification
NormalizeIdentifier(value, kind) ==
    IF kind = "alias" THEN ExtractAliasId(value) ELSE ExtractAgentId(value)

(***************************************************************************)
(* The inputs of SpecNormalize: every concatenation of up to MaxPieces     *)
(* pieces, the locators of the documented form and nested locators.        *)
(***************************************************************************)

MaxPieces == 3

ColonAgent == <<":","a","g","e","n","t","/">>
Region == <<"u","s","-","e","a","s","t","-","1",":","1","1","1","1","1","1","1","1","1","1","1","1">>
OtherPrefix == <<"a","r","n",":","a","w","s",":","s","3",":">>
IdA1 == <<"A","1">>
IdB2 == <<"B","2">>

Pieces ==
    { ArnPrefix, AliasMarker, AgentMarker, ColonAgent,
      <<"a","l","i","a","s","/">>, IdA1, IdB2, Slash }

RECURSIVE Concats(_)
Concats(n) ==
    IF n = 0 THEN { <<>> }
    ELSE LET shorter == Concats(n - 1)
         IN  shorter \cup { s \o p : s \in shorter, p \in Pieces }

\* '<prefix>:agent/<AGENT_ID>/alias/<ALIAS_ID>'
Locator(prefix, agent, alias) ==
    prefix \o ColonAgent \o agent \o AliasMarker \o alias

\* '<prefix>:agent/<AGENT_ID>'
AgentLocator(prefix, agent) == prefix \o ColonAgent \o agent

LocatorPrefixes == { ArnPrefix \o Region, OtherPrefix \o Region }
Ids == { IdA1, IdB2 }

Locators ==
    { Locator(p, a, b) : p \in LocatorPrefixes, a \in Ids, b \in Ids }
    \cup { AgentLocator(p, a) : p \in LocatorPrefixes, a \in Ids }

\* "arn:aws:bedrock:us-east-1:111111111111:agent/A1/alias/B2"
SpecArn == Locator(ArnPrefix \o Region, IdA1, IdB2)

\* a locator whose alias segment is itself a locator
NestedLocators ==
    { Locator(ArnPrefix \o Region, a, l) : a \in Ids, l \in Locators }

NormInputs == Concats(MaxPieces) \cup Locators \cup NestedLocators

Kinds == { "agent", "alias" }

InitNorm ==
    /\ normIn \in NormInputs
    /\ normKind \in Kinds
    /\ normPc = "start"
    /\ normOut = <<>>
    /\ normOut2 = <<>>
    /\ IdleExceptNorm

\* the caller normalises an identifier (invoke_cmd, list_aliases_cmd)
Normalize ==
    /\ normPc = "start"
    /\ normOut' = NormalizeIdentifier(normIn, normKind)
    /\ normPc' = "once"
    /\ UNCHANGED <<normIn, normKind, normOut2>>
    /\ UNCHANGED exceptNorm

\* the result is normalised again
NormalizeAgain ==
    /\ normPc = "once"
    /\ normOut2' = NormalizeIdentifier(normOut, normKind)
    /\ normPc' = "twice"
    /\ UNCHANGED <<normIn, normKind, normOut>>
    /\ UNCHANGED exceptNorm

NextNorm == Normalize \/ NormalizeAgain

SpecNormalize == InitNorm /\ [][NextNorm]_vars


(***************************************************************************)
(* Properties of the identifier normalisers, under SpecNormalize.          *)
(***************************************************************************)

Applied == normPc \in { "once", "twice" }

\* the locators with the Bedrock prefix the docstrings of cli.py name
BedrockPrefixes == { ArnPrefix \o Region }

\* C2: applied to a locator '<prefix>:agent/<AGENT_ID>/alias/<ALIAS_ID>' the
\* normaliser returns <ALIAS_ID> for kind alias and <AGENT_ID> for kind agent,
\* and it returns a bare id unchanged; so the documented ARN
\* arn:aws:bedrock:us-east-1:111111111111:agent/A1/alias/B2 gives B2 and A1.
NormalizeExtractsIds ==
    /\ \A p \in BedrockPrefixes, a \in Ids, b \in Ids :
          (Applied /\ normIn = Locator(p, a, b))
              => normOut = (IF normKind = "alias" THEN b ELSE a)
    /\ (Applied /\ normIn \in Ids) => normOut = normIn

\* C3: the normaliser gives a string for every input, normalising its result
\* again changes nothing, and an input that does not start with the ARN
\* prefix or holds no marker of the kind asked for comes back unchanged.
NormChars ==
    UNION { { s[i] : i \in 1..Len(s) } : s \in Pieces \cup { Region, OtherPrefix } }

IsString(s) == DOMAIN s = 1..Len(s) /\ \A i \in 1..Len(s) : s[i] \in NormChars

NormalizeIdempotent ==
    /\ Applied => IsString(normOut)
    /\ normPc = "twice" => IsString(normOut2) /\ normOut2 = normOut
    /\ (Applied /\ normKind = "alias"
          /\ ~(StartsWith(normIn, ArnPrefix) /\ Contains(normIn, AliasMarker)))
          => normOut = normIn
    /\ (Applied /\ normKind = "agent"
          /\ ~(StartsWith(normIn, ArnPrefix) /\ Contains(normIn, AgentMarker)))
          => normOut = normIn

\* a nested locator was cut down to its innermost alias id and normalised again
NormalizeIdempotentWitness ==
    /\ normPc = "twice"
    /\ normKind = "alias"
    /\ normIn \in NestedLocators
    /\ normOut \in Ids
    /\ normOut # normIn


(***************************************************************************)
(* agent_manager.py: AgentManager.wait_for_status.                         *)
(*                                                                         *)
(* The clock is an integer number of seconds.  A get_agent call takes      *)
(* 0..MaxCallTime seconds, time.sleep(poll_s) takes poll_s seconds; the    *)
(* service may report any status at any poll.                              *)
(***************************************************************************)

MaxStart == 1       \* the clock reads 0..MaxStart when the wait begins
MaxTimeout == 3     \* timeout_s ranges over 0..MaxTimeout
MaxPoll == 2        \* poll_s ranges over 1..MaxPoll
MaxCallTime == 1    \* a get_agent call takes 0..MaxCallTime

Statuses == { "CREATING", "PREPARING", "PREPARED", "FAILED", "DELETING" }

\* a slip: DELETING left out of the terminal statuses
TerminalStatusesFailedOnly == { "FAILED" }

\* line 114: status in {"FAILED", "DELETING"}
TerminalStatuses == { "FAILED", "DELETING" }

AgentIds == { "A1", "B2" }
DesiredStatuses == { "PREPARED", "FAILED" }

\* f"Agent moved to terminal state: {status}"
TerminalMessage(status) == <<"Agent moved to terminal state: ", status>>

\* f"Timed out waiting for agent {agent_id} to reach {desired}"
TimeoutMessage(agent, desired) ==
    <<"Timed out waiting for agent ", agent, " to reach ", desired>>

\* a slip: PREPARING, on the way to the desired status, taken for it
ReachedDesiredOrPreparing(status, desired) ==
    status = desired \/ status = "PREPARING"

\* line 112: status == desired
ReachedDesired(status, desired) == status = desired

\* a slip: the clock compared with the bound without subtracting start
LoopContinuesNoStart(clock, start, timeout) == clock < timeout

\* line 109: while time.time() - start < timeout_s
LoopContinues(clock, start, timeout) == clock - start < timeout

InitWait ==
    /\ wPc = "enter"
    /\ wAgent \in AgentIds
    /\ wDesired \in DesiredStatuses
    /\ wTimeout \in 0..MaxTimeout
    /\ wPoll \in 1..MaxPoll
    /\ now \in 0..MaxStart
    /\ wStart = 0
    /\ wTrace = <<>>
    /\ wSleeps = 0
    /\ wResult = ""
    /\ wErr = NoError
    /\ wCmd = ""
    /\ wPrepares = <<>>
    /\ IdleExceptWait

\* line 108: start = time.time()
WaitEnter ==
    /\ wPc = "enter"
    /\ wStart' = now
    /\ wPc' = "test"
    /\ UNCHANGED <<wAgent, wDesired, wTimeout, wPoll, now, wTrace, wSleeps,
                   wResult, wErr, wCmd, wPrepares>>
    /\ UNCHANGED exceptWait

\* line 109 and, when the loop is left, line 117
WaitTest ==
    /\ wPc = "test"
    /\ IF LoopContinues(now, wStart, wTimeout)
       THEN /\ wPc' = "get"
            /\ UNCHANGED wErr
       ELSE /\ wPc' = "timeout"
            /\ wErr' = Exc("TimeoutError", "", TimeoutMessage(wAgent, wDesired))
    /\ UNCHANGED <<wAgent, wDesired, wTimeout, wPoll, now, wStart, wTrace,
                   wSleeps, wResult, wCmd, wPrepares>>
    /\ UNCHANGED exceptWait

\* lines 110-115: one get_agent call and the two tests of its status
WaitGet ==
    /\ wPc = "get"
    /\ \E status \in Statuses, took \in 0..MaxCallTime :
          /\ now' = now + took
          /\ wTrace' = Append(wTrace, status)
          /\ IF ReachedDesired(status, wDesired)
             THEN /\ wPc' = "returned"
                  /\ wResult' = status
                  /\ UNCHANGED wErr
             ELSE IF status \in TerminalStatuses
             THEN /\ wPc' = "terminal"
                  /\ wErr' = Exc("RuntimeError", "", TerminalMessage(status))
                  /\ UNCHANGED wResult
             ELSE /\ wPc' = "sleep"
                  /\ UNCHANGED <<wResult, wErr>>
    /\ UNCHANGED <<wAgent, wDesired, wTimeout, wPoll, wStart, wSleeps, wCmd,
                   wPrepares>>
    /\ UNCHANGED exceptWait

\* line 116: time.sleep(poll_s)
WaitSleep ==
    /\ wPc = "sleep"
    /\ now' = now + wPoll
    /\ wSleeps' = wSleeps + 1
    /\ wPc' = "test"
    /\ UNCHANGED <<wAgent, wDesired, wTimeout, wPoll, wStart, wTrace, wResult,
                   wErr, wCmd, wPrepares>>
    /\ UNCHANGED exceptWait

NextWait == WaitEnter \/ WaitTest \/ WaitGet \/ WaitSleep

SpecWait == InitWait /\ [][NextWait]_vars

\* the interpreter runs the one thread of the program: an enabled step is taken
SpecWaitFair == SpecWait /\ WF_vars(NextWait)


(***************************************************************************)
(* Properties of wait_for_status, under SpecWait and SpecWaitFair.         *)
(***************************************************************************)

\* every poll so far saw a status that is neither the desired one nor terminal
NeverReady ==
    \A i \in 1..Len(wTrace) :
        wTrace[i] # wDesired /\ wTrace[i] \notin { "FAILED", "DELETING" }

\* C4: while every poll reports a non-desired, non-terminal status the wait
\* returns no status, and it ends in the timeout failure, raised only once
\* the elapsed time has reached timeout_s, for every timeout_s >= 0 and
\* poll_s > 0; that failure is a TimeoutError naming the agent id and the
\* desired status.
WaitTimesOut ==
    /\ [](NeverReady => (wPc \notin { "returned", "terminal" } /\ wResult = ""))
    /\ [](wPc = "timeout" =>
            /\ now - wStart >= wTimeout
            /\ wErr.type = "TimeoutError"
            /\ \E i \in 1..Len(wErr.text) : wErr.text[i] = wAgent
            /\ \E i \in 1..Len(wErr.text) : wErr.text[i] = wDesired)
    /\ (([]NeverReady) => <>(wPc = "timeout"))

\* the service said PREPARING at each of several polls and the wait timed out
WaitTimesOutWitness ==
    /\ wPc = "timeout"
    /\ Len(wTrace) >= 2
    /\ \A i \in 1..Len(wTrace) : wTrace[i] = "PREPARING"
    /\ wDesired = "PREPARED"
    /\ wSleeps = Len(wTrace)

\* C5: a poll that sees FAILED or DELETING, when that is not the desired
\* status, is the last poll: the wait fails there with a RuntimeError naming
\* the status seen, not with the timeout error, without a sleep after that
\* poll and without another get_agent call; FAILED at the first poll fails
\* with no sleep at all.
WaitFailsFast ==
    \A i \in 1..Len(wTrace) :
        (wTrace[i] \in { "FAILED", "DELETING" } /\ wTrace[i] # wDesired) =>
            /\ i = Len(wTrace)
            /\ wPc = "terminal"
            /\ wErr.type = "RuntimeError"
            /\ wErr.type # "TimeoutError"
            /\ \E k \in 1..Len(wErr.text) : wErr.text[k] = wTrace[i]
            /\ wSleeps = i - 1
            /\ wResult = ""

\* FAILED at the first poll, with time left before the bound
WaitFailsFastWitness ==
    /\ wPc = "terminal"
    /\ wTrace = <<"FAILED">>
    /\ wDesired = "PREPARED"
    /\ now - wStart < wTimeout
    /\ wSleeps = 0


(***************************************************************************)
(* cli.py: prepare_cmd and the prepare-and-wait of quickstart_cmd.         *)
(*                                                                         *)
(* Both call m.prepare_agent(agent_id) and then                            *)
(* m.wait_for_status(agent_id, "PREPARED") with the default timeout_s and  *)
(* poll_s, which the model scales down to 1..MaxTimeout and 1..MaxPoll.    *)
(* agents.prepare_agent may answer or raise a ClientError.                 *)
(***************************************************************************)

\* the commands that prepare and wait
WaitCommands == { "prepare", "quickstart" }

\* what agents.prepare_agent may raise
PrepareErrors ==
    { Exc("ClientError", code, <<code>>) :
        code \in { "ResourceNotFoundException", "ThrottlingException" } }

\* cli.py lines 110 and 168: the desired status the commands pass
CommandDesired == "PREPARED"

InitPrepare ==
    /\ wPc = "prepare"
    /\ wCmd \in WaitCommands
    /\ wAgent \in AgentIds
    /\ wDesired = CommandDesired
    /\ wTimeout \in 1..MaxTimeout
    /\ wPoll \in 1..MaxPoll
    /\ now \in 0..MaxStart
    /\ wStart = 0
    /\ wTrace = <<>>
    /\ wSleeps = 0
    /\ wResult = ""
    /\ wErr = NoError
    /\ wPrepares = <<>>
    /\ IdleExceptWait

\* cli.py lines 109 and 167, agent_manager.py lines 101-105:
\* m.prepare_agent(agent_id); an exception ends the command before any wait
PrepareAgent ==
    /\ wPc = "prepare"
    /\ wPrepares' = Append(wPrepares, wAgent)
    /\ \E took \in 0..MaxCallTime : now' = now + took
    /\ \/ /\ wPc' = "enter"
          /\ UNCHANGED wErr
       \/ /\ \E e \in PrepareErrors : wErr' = e
          /\ wPc' = "prepare-raised"
    /\ UNCHANGED <<wAgent, wDesired, wTimeout, wPoll, wStart, wTrace, wSleeps,
                   wResult, wCmd>>
    /\ UNCHANGED exceptWait

NextPrepare == PrepareAgent \/ WaitEnter \/ WaitTest \/ WaitGet \/ WaitSleep

SpecPrepare == InitPrepare /\ [][NextPrepare]_vars


(***************************************************************************)
(* Properties of prepare-and-wait, under SpecPrepare.                      *)
(***************************************************************************)

\* the status the latest poll saw ("" before the first poll)
LastPolled(trace) == IF trace = <<>> THEN "" ELSE trace[Len(trace)]

\* this step is a poll that saw a status neither desired nor terminal
PolledInProgress ==
    /\ Len(wTrace') = Len(wTrace) + 1
    /\ LastPolled(wTrace') # wDesired
    /\ LastPolled(wTrace') \notin { "FAILED", "DELETING" }

MaxStream == 3      \* a response stream holds 0..MaxStream events

\* a byte that is not valid UTF-8
BadByte == "<ff>"

\* str.strip() with no argument strips whitespace
Whitespace == { " ", "\n" }

Hel == <<"H","e","l">>
Lo == <<"l","o">>
SpaceWorld == <<" ","w","o","r","l","d">>

Event(kind, payload) == [kind |-> kind, payload |-> payload]

\* "chunk" events carry bytes, "finalResponse" events text (both may be
\* empty or missing), "trace" events carry neither
Events ==
    { Event("chunk", b) : b \in { Hel, Lo, <<" ">>, <<BadByte, "\n">> } }
    \cup { Event("finalResponse", t) : t \in { SpaceWorld, <<>> } }
    \cup { Event("trace", <<>>) }

RECURSIVE SeqsUpTo(_, _)
SeqsUpTo(S, n) ==
    IF n = 0 THEN { <<>> }
    ELSE LET shorter == SeqsUpTo(S, n - 1)
         IN  shorter \cup { Append(q, x) : q \in shorter, x \in S }

\* lines 177-181: data.decode("utf-8", errors="ignore")
Decode(bytes) == SelectSeq(bytes, LAMBDA b : b # BadByte)

RECURSIVE LStrip(_)
LStrip(t) ==
    IF t # <<>> /\ Head(t) \in Whitespace THEN LStrip(Tail(t)) ELSE t

RECURSIVE RStrip(_)
RStrip(t) ==
    IF t # <<>> /\ t[Len(t)] \in Whitespace
    THEN RStrip(SubSeq(t, 1, Len(t) - 1))
    ELSE t

\* str.strip()
Strip(t) == RStrip(LStrip(t))

\* "".join(chunks)
RECURSIVE Join(_)
Join(chunks) ==
    IF chunks = <<>> THEN <<>> ELSE Head(chunks) \o Join(Tail(chunks))

\* a slip: each fragment stripped before it is kept
AppendedStripped(chunks, event) ==
    IF event.kind = "chunk"
    THEN Append(chunks, Strip(Decode(event.payload)))
    ELSE IF event.kind = "finalResponse" /\ event.payload # <<>>
    THEN Append(chunks, Strip(event.payload))
    ELSE chunks

\* lines 176-187: the body of the for loop, chunks after one event
Appended(chunks, event) ==
    IF event.kind = "chunk"
    THEN Append(chunks, Decode(event.payload))
    ELSE IF event.kind = "finalResponse" /\ event.payload # <<>>
    THEN Append(chunks, event.payload)
    ELSE chunks

\* the remote error codes and messages the service may answer with
RemoteCodes ==
    { "AccessDeniedException", "accessDeniedException", "ThrottlingException" }
RemoteTexts ==
    { <<"Access denied", " to the model">>, <<"Rate exceeded">> }

PreCallErrors ==
    { Exc("ClientError", c, t) : c \in RemoteCodes, t \in RemoteTexts }
StreamErrors ==
    { Exc("EventStreamError", c, t) : c \in RemoteCodes, t \in RemoteTexts }

\* line 12: the classes imported from botocore.exceptions, each with the
\* classes it derives from
Bases(type) ==
    IF type = "ClientError" THEN { "ClientError", "Exception" }
    ELSE IF type = "EventStreamError"
    THEN { "EventStreamError", "ClientError", "Exception" }
    ELSE { type, "Exception" }

\* whether "except cls" catches e
Catches(cls, e) == cls \in Bases(e.type)

\* str(e) of a ClientError:
\* "An error occurred (<code>) when calling the <operation> operation: <message>"
StrOf(e) ==
    <<"An error occurred (", e.code, ") when calling the InvokeAgent operation: ">>
    \o e.text

\* "needle in msg", for the needles the code looks for
Mentions(msg, needle) == \E i \in 1..Len(msg) : msg[i] = needle

\* a slip: the spelling the event stream uses left out
AccessDeniedCodesUpperOnly == { "AccessDeniedException" }

\* line 191
AccessDeniedCodes == { "AccessDeniedException", "accessDeniedException" }

\* line 193
InvokeDeniedMessage ==
    <<"Access denied invoking agent. Ensure your caller has ",
      "bedrock:InvokeAgent", " and (for streaming) ",
      "bedrock:InvokeModelWithResponseStream", " permissions.">>

\* line 201
StreamDeniedMessage ==
    <<"Access denied during agent streaming. Grant ",
      "bedrock:InvokeAgent", " and ",
      "bedrock:InvokeModelWithResponseStream",
      " to the invoking identity and retry.">>

\* lines 189-203: what invoke raises when e is raised inside its try block;
\* the except clauses are tried in order
HandleInvokeError(e) ==
    IF Catches("ClientError", e)
    THEN IF e.code \in AccessDeniedCodes
         THEN Exc("RuntimeError", "", InvokeDeniedMessage)
         ELSE e
    ELSE IF Catches("EventStreamError", e)
    THEN IF Mentions(StrOf(e), "accessDeniedException")
              \/ Mentions(StrOf(e), "Access denied")
         THEN Exc("RuntimeError", "", StreamDeniedMessage)
         ELSE e
    ELSE e

InitInvoke ==
    /\ iPc = "call"
    /\ iStream \in SeqsUpTo(Events, MaxStream)
    /\ iIdx = 0
    /\ iChunks = <<>>
    /\ iResult = <<>>
    /\ iRemote = NoError
    /\ iPhase = ""
    /\ iErr = NoError
    /\ IdleExceptInvoke

\* lines 166-174: invoke_agent answers with the stream
InvokeCall ==
    /\ iPc = "call"
    /\ iPc' = "stream"
    /\ UNCHANGED <<iStream, iIdx, iChunks, iResult, iRemote, iPhase, iErr>>
    /\ UNCHANGED exceptInvoke

\* lines 166-172 and 189-195: invoke_agent raises
InvokeCallRaises ==
    /\ iPc = "call"
    /\ \E e \in PreCallErrors :
          /\ iRemote' = e
          /\ iErr' = HandleInvokeError(e)
    /\ iPhase' = "call"
    /\ iPc' = "raised"
    /\ UNCHANGED <<iStream, iIdx, iChunks, iResult>>
    /\ UNCHANGED exceptInvoke

\* lines 175-187: the for loop takes the next event
InvokeConsume ==
    /\ iPc = "stream"
    /\ iIdx < Len(iStream)
    /\ iChunks' = Appended(iChunks, iStream[iIdx + 1])
    /\ iIdx' = iIdx + 1
    /\ UNCHANGED <<iPc, iStream, iResult, iRemote, iPhase, iErr>>
    /\ UNCHANGED exceptInvoke

\* lines 175 and 189-203: the stream raises instead of giving its next event
InvokeStreamRaises ==
    /\ iPc = "stream"
    /\ \E e \in StreamErrors :
          /\ iRemote' = e
          /\ iErr' = HandleInvokeError(e)
    /\ iPhase' = "stream"
    /\ iPc' = "raised"
    /\ UNCHANGED <<iStream, iIdx, iChunks, iResult>>
    /\ UNCHANGED exceptInvoke

\* line 188: the stream is exhausted
InvokeReturn ==
    /\ iPc = "stream"
    /\ iIdx = Len(iStream)
    /\ iResult' = Strip(Join(iChunks))
    /\ iPc' = "done"
    /\ UNCHANGED <<iStream, iIdx, iChunks, iRemote, iPhase, iErr>>
    /\ UNCHANGED exceptInvoke

NextInvoke ==
    \/ InvokeCall
    \/ InvokeCallRaises
    \/ InvokeConsume
    \/ InvokeStreamRaises
    \/ InvokeReturn

SpecInvoke == InitInvoke /\ [][NextInvoke]_vars

(***************************************************************************)
(* Properties of invoke, under SpecInvoke.                                 *)
(***************************************************************************)

\* the text a fragment bears: the decodable bytes of a data chunk, the text
\* of a final-answer fragment, nothing for any other event
FragmentText(event) ==
    IF event.kind = "chunk"
    THEN SelectSeq(event.payload, LAMBDA b : b # "<ff>")
    ELSE IF event.kind = "finalResponse" THEN event.payload
    ELSE <<>>

\* the fragments' texts one after another, in arrival order
RECURSIVE StreamText(_, _)
StreamText(stream, n) ==
    IF n = 0 THEN <<>>
    ELSE StreamText(stream, n - 1) \o FragmentText(stream[n])

IsSpace(c) == c = " " \/ c = "\n"

\* r is w without its leading and trailing whitespace
IsTrimOf(r, w) ==
    \E i \in 1..(Len(w) + 1) : \E j \in (i - 1)..Len(w) :
        /\ r = SubSeq(w, i, j)
        /\ \A k \in 1..(i - 1) : IsSpace(w[k])
        /\ \A k \in (j + 1)..Len(w) : IsSpace(w[k])
        /\ r # <<>> => (~IsSpace(r[1]) /\ ~IsSpace(r[Len(r)]))

\* C6: invoke returns the texts of the stream's text-bearing fragments
\* concatenated in arrival order, with whitespace trimmed from the two ends
\* of the whole only; the stream [data("Hel"), data("lo"), final(" world")]
\* gives "Hello world".
InvokeConcatenates ==
    iPc = "done" =>
        /\ IsTrimOf(iResult, StreamText(iStream, Len(iStream)))
        /\ iStream = <<Event("chunk", <<"H","e","l">>),
                       Event("chunk", <<"l","o">>),
                       Event("finalResponse", <<" ","w","o","r","l","d">>)>>
              => iResult = <<"H","e","l","l","o"," ","w","o","r","l","d">>

\* the documented stream was read to its end
InvokeConcatenatesWitness ==
    /\ iPc = "done"
    /\ iStream = <<Event("chunk", Hel), Event("chunk", Lo),
                   Event("finalResponse", SpaceWorld)>>
    /\ iIdx = 3
    /\ Len(iResult) = 11

\* C8: an access-denied error of the invoke_agent call and one raised while
\* the stream is read both reach the caller as one and the same RuntimeError
\* message, which names bedrock:InvokeAgent and
\* bedrock:InvokeModelWithResponseStream; no error with another code is
\* turned into that message.
InvokeDeniedRewritten ==
    iPc = "raised" =>
        IF iRemote.code \in { "AccessDeniedException", "accessDeniedException" }
        THEN /\ iErr = Exc("RuntimeError", "", InvokeDeniedMessage)
             /\ Mentions(iErr.text, "bedrock:InvokeAgent")
             /\ Mentions(iErr.text, "bedrock:InvokeModelWithResponseStream")
        ELSE /\ iErr.type # "RuntimeError"
             /\ iErr.text \notin { InvokeDeniedMessage, StreamDeniedMessage }

\* access was denied after part of the stream had been read
InvokeDeniedRewrittenWitness ==
    /\ iPc = "raised"
    /\ iPhase = "stream"
    /\ iIdx >= 1
    /\ iRemote.code = "accessDeniedException"
    /\ iErr.type = "RuntimeError"


(***************************************************************************)
(* agent_manager.py: AgentManager.list_agents and list_aliases.            *)
(*                                                                         *)
(* The service holds a list of pages.  The continuation token that leads   *)
(* to page i is the number i; a response carries the token of the next     *)
(* page, or none on the last page.  Each page carries its items under one  *)
(* of the two field names the code accepts, or under neither.              *)
(***************************************************************************)

MaxPages == 3       \* the service holds 1..MaxPages pages
MaxPageItems == 2   \* a page holds 0..MaxPageItems items

\* line 58: token = None (no continuation token)
NoToken == 0

ListKinds == { "agents", "aliases" }

\* lines 65 and 136: the two field names, in the order the code asks for them
FirstKey(kind) == IF kind = "agents" THEN "agents" ELSE "agentAliasSummaries"
SecondKey(kind) == IF kind = "agents" THEN "agentSummaries" ELSE "agentAliases"

\* the items of page p when it holds n of them
PageItems(p, n) == [k \in 1..n |-> [page |-> p, item |-> k]]

\* a page: the field its list is under ("first", "second", "none") and its size
PageShapes ==
    { [field |-> f, size |-> n] : f \in { "first", "second" }, n \in 0..MaxPageItems }
    \cup { [field |-> "none", size |-> 0] }

\* the response of the service to a request carrying token: the fields it
\* holds, by name, and the token of the next page
Respond(pages, kind, token) ==
    LET p == IF token = NoToken THEN 1 ELSE token
        items == PageItems(p, pages[p].size)
        key == IF pages[p].field = "first" THEN FirstKey(kind) ELSE SecondKey(kind)
    IN  [ fields |-> IF pages[p].field = "none"
                     THEN [k \in {} |-> <<>>]
                     ELSE [k \in { key } |-> items],
          nextToken |-> IF p < Len(pages) THEN p + 1 ELSE NoToken ]

\* resp.get(key): None, modelled as the (equally falsy) empty list, if absent
Get(resp, key) ==
    IF key \in DOMAIN resp.fields THEN resp.fields[key] ELSE <<>>

\* lines 65 and 136: resp.get(first) or resp.get(second) or []
ItemsOf(resp, kind) ==
    IF Get(resp, FirstKey(kind)) # <<>> THEN Get(resp, FirstKey(kind))
    ELSE IF Get(resp, SecondKey(kind)) # <<>> THEN Get(resp, SecondKey(kind))
    ELSE <<>>

\* a slip: the page replaces what was accumulated
ExtendedReplacing(acc, items) == items

\* lines 66 and 137: agents.extend(items)
Extended(acc, items) == acc \o items

InitList ==
    /\ lPc = "request"
    /\ lKind \in ListKinds
    /\ lPages \in (SeqsUpTo(PageShapes, MaxPages) \ { <<>> })
    /\ lToken = NoToken
    /\ lAcc = <<>>
    /\ lRequests = <<>>
    /\ IdleExceptList

\* lines 60-69 and 132-140: one turn of the while loop
ListRequest ==
    /\ lPc = "request"
    /\ LET sent == IF lToken # NoToken THEN lToken ELSE NoToken
           resp == Respond(lPages, lKind, sent)
       IN  /\ lRequests' = Append(lRequests, sent)
           /\ lAcc' = Extended(lAcc, ItemsOf(resp, lKind))
           /\ lToken' = resp.nextToken
           /\ lPc' = IF resp.nextToken = NoToken THEN "done" ELSE "request"
    /\ UNCHANGED <<lKind, lPages>>
    /\ UNCHANGED exceptList

NextList == ListRequest

SpecList == InitList /\ [][NextList]_vars

(***************************************************************************)
(* Properties of the list operations, under SpecList.                      *)
(***************************************************************************)

\* the items of the first n pages, page after page
RECURSIVE ItemsOfPages(_, _)
ItemsOfPages(pages, n) ==
    IF n = 0 THEN <<>>
    ELSE ItemsOfPages(pages, n - 1)
         \o [k \in 1..pages[n].size |-> [page |-> n, item |-> k]]

\* C7: list_agents and list_aliases return the items of all the pages the
\* service holds, in order: the first request carries no token, every later
\* one the token the previous response returned, one request per page and
\* none after the page that returns no token, whichever of the two field
\* names a page uses; 3 pages of 2 items give 6 items from 3 requests.
ListReturnsAllPages ==
    /\ Len(lRequests) <= Len(lPages)
    /\ \A i \in 1..Len(lRequests) :
          lRequests[i] = (IF i = 1 THEN 0 ELSE i)
    /\ lAcc = ItemsOfPages(lPages, Len(lRequests))
    /\ lPc = "done" <=> Len(lRequests) = Len(lPages)
    /\ (/\ lPc = "done"
        /\ Len(lPages) = 3
        /\ \A p \in 1..3 : lPages[p].size = 2 /\ lPages[p].field # "none")
          => (Len(lAcc) = 6 /\ Len(lRequests) = 3)

\* three pages of two items, under both field names, were listed
ListReturnsAllPagesWitness ==
    /\ lPc = "done"
    /\ Len(lPages) = 3
    /\ \A p \in 1..3 : lPages[p].size = 2
    /\ lPages[1].field = "first"
    /\ lPages[2].field = "second"
    /\ Len(lAcc) = 6
    /\ lRequests = <<0, 2, 3>>


(***************************************************************************)
(* cli.py: create_agent_cmd, quickstart_cmd and invoke_cmd, with the       *)
(* AgentManager methods they call, run one after another against a         *)
(* service that keeps agent names unique and alias names unique within     *)
(* their agent.  Identifiers are bare ids here; a list call returns the    *)
(* whole list (pagination is SpecList's subject) and m.invoke is one step  *)
(* (SpecInvoke's subject).  Each remote call may also fail with an error   *)
(* of the service, at most MaxFaults times in a command.                   *)
(***************************************************************************)

MaxRuns == 2        \* the number of commands run one after another
MaxFaults == 1      \* the number of service failures during one command

Names == { "n1", "n2" }
AliasNames == { "prod", "dev" }

\* the error the service answers a duplicate name with
ConflictError == Exc("ClientError", "ConflictException", <<"already exists">>)

\* the error the service answers an invocation of an unprepared agent with
NotPreparedError ==
    Exc("ClientError", "ValidationException", <<"agent is not prepared">>)

\* other errors a control-plane call may end with
ControlFaults ==
    { Exc("ClientError", "ThrottlingException", <<"Rate exceeded">>),
      Exc("ClientError", "AccessDeniedException", <<"Access denied">>) }

\* lines 238-239: the message printed, then raise SystemExit(2)
CannotListExit ==
    Exc("SystemExit", "2",
        <<"Cannot list aliases. Pass alias ID/ARN directly or grant bedrock:ListAgentAliases.">>)

\* lines 246-247
AliasNotFoundExit ==
    Exc("SystemExit", "2",
        <<"Alias not found. Use list-aliases, pass alias ID/ARN, or use --create-alias-if-missing.">>)

\* the service: whether an agent has the name
NameTaken(agents, name) == \E i \in 1..Len(agents) : agents[i].name = name

\* the service: whether the agent has an alias of the name
AliasTaken(aliases, agent, name) ==
    \E i \in 1..Len(aliases) : aliases[i].agent = agent /\ aliases[i].name = name

\* a slip: the first agent listed is taken, whatever its name
FindAgentByNameAny(agents, name) == IF agents = <<>> THEN 0 ELSE 1

\* lines 72-76: the id of the first agent listed that has the name, 0 for None
FindAgentByName(agents, name) ==
    IF \E i \in 1..Len(agents) : agents[i].name = name
    THEN CHOOSE i \in 1..Len(agents) :
            /\ agents[i].name = name
            /\ \A j \in 1..(i - 1) : agents[j].name # name
    ELSE 0

\* lines 143-147: the id of the first alias of the agent with the name, 0 for None
FindAliasByName(aliases, agent, name) ==
    LET hits == { i \in 1..Len(aliases) :
                    aliases[i].agent = agent /\ aliases[i].name = name }
    IN  IF hits = {} THEN 0
        ELSE CHOOSE i \in hits : \A j \in hits : i <= j

\* the step after create_agent has returned: create_agent_cmd prints the
\* agent, quickstart_cmd goes on to prepare it
AfterCreate == IF cmd = "quickstart" THEN "prepare" ELSE "done"

\* the command ends with exception exc, the service having raised remote
Fails(remote, exc, where) ==
    /\ raised' = remote
    /\ surfaced' = exc
    /\ at' = where
    /\ pc' = "failed"

\* the service fails once more during this command
Inject == faults < MaxFaults /\ faults' = faults + 1

svc == <<svcAgents, svcAliases>>
args == <<run, cmd, cfgName, aliasName, createIfMissing, prev>>
errs == <<raised, surfaced, at>>

InitFlow ==
    /\ svcAgents \in { <<>>, <<[name |-> "n2", status |-> "PREPARED"]>> }
    /\ svcAliases = <<>>
    /\ run = 1
    /\ cmd = ""
    /\ pc = "start"
    /\ cfgName = ""
    /\ aliasName = ""
    /\ createIfMissing = FALSE
    /\ agentId = 0
    /\ aliasId = 0
    /\ caught = NoError
    /\ raised = NoError
    /\ surfaced = NoError
    /\ at = ""
    /\ created = FALSE
    /\ faults = 0
    /\ prev = NoRun
    /\ IdleExceptFlow

\* cli.py lines 73-93: create-agent, with AGENT_NAME set to a name
StartCreateAgent ==
    /\ pc = "start"
    /\ \E n \in Names : cfgName' = n
    /\ cmd' = "create-agent"
    /\ pc' = "create"
    /\ UNCHANGED <<svc, run, aliasName, createIfMissing, prev, agentId,
                   aliasId, caught, created, faults, errs>>
    /\ UNCHANGED exceptFlow

\* cli.py lines 144-163: quickstart, with AGENT_NAME and --alias-name
StartQuickstart ==
    /\ pc = "start"
    /\ \E n \in Names : cfgName' = n
    /\ \E a \in AliasNames : aliasName' = a
    /\ cmd' = "quickstart"
    /\ pc' = "create"
    /\ UNCHANGED <<svc, run, createIfMissing, prev, agentId, aliasId, caught,
                   created, faults, errs>>
    /\ UNCHANGED exceptFlow

\* cli.py lines 228-234: invoke AGENT_ID [ALIAS_ID] --alias-name ...
StartInvoke ==
    /\ pc = "start"
    /\ \E ag \in 1..Len(svcAgents) :
       \E al \in { 0 } \cup { i \in 1..Len(svcAliases) : svcAliases[i].agent = ag } :
          /\ agentId' = ag
          /\ aliasId' = al
          /\ pc' = IF al # 0 THEN "invoke" ELSE "resolve"
    /\ \E a \in AliasNames : aliasName' = a
    /\ \E f \in BOOLEAN : createIfMissing' = f
    /\ cmd' = "invoke"
    /\ UNCHANGED <<svc, run, cfgName, prev, caught, created, faults, errs>>
    /\ UNCHANGED exceptFlow

\* agent_manager.py lines 81-94 and 99: the agents.create_agent call
CreateAgent ==
    /\ pc = "create"
    /\ \/ /\ ~NameTaken(svcAgents, cfgName)
          /\ svcAgents' = Append(svcAgents, [name |-> cfgName, status |-> "CREATING"])
          /\ agentId' = Len(svcAgents) + 1
          /\ created' = TRUE
          /\ pc' = AfterCreate
          /\ UNCHANGED <<caught, faults, errs>>
       \/ /\ NameTaken(svcAgents, cfgName)
          /\ caught' = ConflictError
          /\ raised' = ConflictError
          /\ pc' = "lookup"
          /\ UNCHANGED <<svcAgents, agentId, created, faults, surfaced, at>>
       \/ /\ Inject
          /\ \E e \in ControlFaults : caught' = e /\ Fails(e, e, "create")
          /\ UNCHANGED <<svcAgents, agentId, created>>
    /\ UNCHANGED <<svcAliases, args, aliasId>>
    /\ UNCHANGED exceptFlow

\* agent_manager.py lines 94-99: the handling of ConflictException
Lookup ==
    /\ pc = "lookup"
    /\ \/ \* list_agents or get_agent raises: the new exception propagates
          /\ Inject
          /\ \E e \in ControlFaults : Fails(e, e, "lookup")
          /\ UNCHANGED agentId
       \/ LET existing == FindAgentByName(svcAgents, cfgName)
          IN  IF existing # 0
              THEN /\ agentId' = existing
                   /\ raised' = NoError
                   /\ pc' = AfterCreate
                   /\ UNCHANGED <<faults, surfaced, at>>
              ELSE /\ Fails(caught, caught, "lookup")
                   /\ UNCHANGED <<agentId, faults>>
    /\ UNCHANGED <<svc, args, aliasId, caught, created>>
    /\ UNCHANGED exceptFlow

\* cli.py line 167, agent_manager.py lines 101-105
Prepare ==
    /\ pc = "prepare"
    /\ \/ /\ svcAgents' = [svcAgents EXCEPT ![agentId].status = "PREPARING"]
          /\ pc' = "wait"
          /\ UNCHANGED <<faults, errs>>
       \/ /\ Inject
          /\ \E e \in ControlFaults : Fails(e, e, "prepare")
          /\ UNCHANGED svcAgents
    /\ UNCHANGED <<svcAliases, args, agentId, aliasId, caught, created>>
    /\ UNCHANGED exceptFlow

\* the service finishes preparing the agent, or fails to
SvcSettle ==
    /\ pc = "wait"
    /\ svcAgents[agentId].status = "PREPARING"
    /\ \/ /\ svcAgents' = [svcAgents EXCEPT ![agentId].status = "PREPARED"]
          /\ UNCHANGED faults
       \/ /\ Inject
          /\ svcAgents' = [svcAgents EXCEPT ![agentId].status = "FAILED"]
    /\ UNCHANGED <<svcAliases, args, pc, agentId, aliasId, caught, created, errs>>
    /\ UNCHANGED exceptFlow

\* cli.py line 168, agent_manager.py lines 107-117: wait_for_status ends
\* (its polls while the status stays PREPARING change nothing)
Wait ==
    /\ pc = "wait"
    /\ LET status == svcAgents[agentId].status
       IN  \/ /\ status = "PREPARED"
              /\ pc' = "alias"
              /\ UNCHANGED <<faults, errs>>
           \/ /\ status \in TerminalStatuses
              /\ Fails(raised, Exc("RuntimeError", "", TerminalMessage(status)), "wait")
              /\ UNCHANGED faults
           \/ \* the service is too slow: the loop runs out of time
              /\ status \notin TerminalStatuses \cup { "PREPARED" }
              /\ Inject
              /\ Fails(raised, Exc("TimeoutError", "",
                                   TimeoutMessage(agentId, "PREPARED")), "wait")
           \/ /\ Inject
              /\ \E e \in ControlFaults : Fails(e, e, "wait")
    /\ UNCHANGED <<svc, args, agentId, aliasId, caught, created>>
    /\ UNCHANGED exceptFlow

\* cli.py lines 169-170 and 242-243, agent_manager.py lines 119-126
CreateAlias ==
    /\ pc \in { "alias", "mkalias" }
    /\ \/ /\ ~AliasTaken(svcAliases, agentId, aliasName)
          /\ svcAliases' = Append(svcAliases, [agent |-> agentId, name |-> aliasName])
          /\ aliasId' = Len(svcAliases) + 1
          /\ pc' = "invoke"
          /\ UNCHANGED <<faults, errs>>
       \/ /\ AliasTaken(svcAliases, agentId, aliasName)
          /\ Fails(ConflictError, ConflictError, "alias")
          /\ UNCHANGED <<svcAliases, aliasId, faults>>
       \/ /\ Inject
          /\ \E e \in ControlFaults : Fails(e, e, "alias")
          /\ UNCHANGED <<svcAliases, aliasId>>
    /\ UNCHANGED <<svcAgents, args, agentId, caught, created>>
    /\ UNCHANGED exceptFlow

\* cli.py lines 235-249: the alias name is resolved to an alias id
Resolve ==
    /\ pc = "resolve"
    /\ \/ \* list_aliases raises: except Exception, a message, SystemExit(2)
          /\ Inject
          /\ \E e \in ControlFaults : Fails(e, CannotListExit, "resolve")
          /\ UNCHANGED aliasId
       \/ LET found == FindAliasByName(svcAliases, agentId, aliasName)
          IN  IF found # 0
              THEN /\ aliasId' = found
                   /\ pc' = "invoke"
                   /\ UNCHANGED <<faults, errs>>
              ELSE IF createIfMissing
              THEN /\ pc' = "mkalias"
                   /\ UNCHANGED <<aliasId, faults, errs>>
              ELSE /\ Fails(raised, AliasNotFoundExit, "resolve")
                   /\ UNCHANGED <<aliasId, faults>>
    /\ UNCHANGED <<svc, args, agentId, caught, created>>
    /\ UNCHANGED exceptFlow

\* cli.py lines 172 and 250, agent_manager.py lines 162-203: m.invoke
Invoke ==
    /\ pc = "invoke"
    /\ \/ /\ svcAgents[agentId].status = "PREPARED"
          /\ pc' = "done"
          /\ UNCHANGED <<faults, errs>>
       \/ /\ svcAgents[agentId].status # "PREPARED"
          /\ Fails(NotPreparedError, HandleInvokeError(NotPreparedError), "invoke")
          /\ UNCHANGED faults
       \/ /\ Inject
          /\ \E e \in PreCallErrors \cup StreamErrors :
                Fails(e, HandleInvokeError(e), "invoke")
    /\ UNCHANGED <<svc, args, agentId, aliasId, caught, created>>
    /\ UNCHANGED exceptFlow

\* the command has ended; the next one is typed
NextRun ==
    /\ pc \in { "done", "failed" }
    /\ run < MaxRuns
    /\ run' = run + 1
    /\ prev' = [cmd |-> cmd, name |-> cfgName, alias |-> aliasName,
                ok |-> (pc = "done"), agentId |-> agentId, created |-> created]
    /\ cmd' = ""
    /\ pc' = "start"
    /\ cfgName' = ""
    /\ aliasName' = ""
    /\ createIfMissing' = FALSE
    /\ agentId' = 0
    /\ aliasId' = 0
    /\ caught' = NoError
    /\ raised' = NoError
    /\ surfaced' = NoError
    /\ at' = ""
    /\ created' = FALSE
    /\ faults' = 0
    /\ UNCHANGED svc
    /\ UNCHANGED exceptFlow

Next ==
    \/ StartCreateAgent
    \/ StartQuickstart
    \/ StartInvoke
    \/ CreateAgent
    \/ Lookup
    \/ Prepare
    \/ SvcSettle
    \/ Wait
    \/ CreateAlias
    \/ Resolve
    \/ Invoke
    \/ NextRun

Spec == InitFlow /\ [][Next]_vars


(***************************************************************************)
(* Properties of the commands, under Spec.                                 *)
(***************************************************************************)

CreateCommands == { "create-agent", "quickstart" }

\* this command calls create_agent with the name the command before it
\* called create_agent with and got an agent for
SecondCreate ==
    /\ prev.cmd \in CreateCommands
    /\ prev.agentId # 0
    /\ cmd \in CreateCommands
    /\ cfgName = prev.name

\* C1: when create_agent is called a second time with the same name, the
\* agent it returns has the id the first call returned, agents.create_agent
\* does not succeed both times, and the ConflictException of the second
\* call is not what the caller gets: the agent is looked up by name and
\* returned, and only another error of the service makes the call fail.
CreateTwiceSameAgent ==
    SecondCreate =>
        /\ agentId # 0 => agentId = prev.agentId
        /\ ~(created /\ prev.created)
        /\ pc \notin { "start", "create", "lookup", "failed" } => agentId # 0
        /\ (pc = "failed" /\ at \in { "create", "lookup" }) =>
              (faults > 0 /\ surfaced.code # "ConflictException")

\* two create-agent commands with one name, the first of which created the
\* agent beside another one, have both ended and returned the same agent
CreateTwiceSameAgentWitness ==
    /\ SecondCreate
    /\ prev.cmd = "create-agent"
    /\ cmd = "create-agent"
    /\ prev.created
    /\ ~created
    /\ pc = "done"
    /\ agentId = prev.agentId
    /\ agentId = 2

\* C9: but for a ConflictException create_agent recovered from and an
\* access-denied error of invoke, a remote error that ends a command is the
\* exception the caller gets, code and message unchanged: no such error is
\* swallowed or replaced.
ErrorsPropagateUnchanged ==
    (/\ pc = "failed"
     /\ raised # NoError
     /\ ~(at = "invoke"
          /\ raised.code \in { "AccessDeniedException", "accessDeniedException" }))
        => surfaced = raised

\* C10: a quickstart run after a successful quickstart with the same agent
\* name and alias name, the service working as it should, does not fail, and
\* there is exactly one agent of that name.
QuickstartRerunSafe ==
    (/\ prev.cmd = "quickstart"
     /\ prev.ok
     /\ cmd = "quickstart"
     /\ cfgName = prev.name
     /\ aliasName = prev.alias
     /\ faults = 0)
        => /\ pc # "failed"
           /\ Cardinality({ i \in 1..Len(svcAgents) : svcAgents[i].name = cfgName }) = 1

=============================================================================
